---- MODULE Spec2Model ----
(***************************************************************************)
(* Memory Store of the AI memory platform: the Neo4j graph of Memory nodes *)
(* and typed relationships, the ChromaDB vector collection, and the        *)
(* operations of app/services/memory_service.py and the endpoints of       *)
(* app/api/memories.py and app/api/graph.py that drive them.               *)
(*                                                                         *)
(* Confidence and similarity values are fixed-point hundredths             *)
(* (100 stands for 1.0).  Memory ids and relationship ids are fresh uuids  *)
(* in the code; here they are the successive naturals 1, 2, ...            *)
(***************************************************************************)
EXTENDS Integers, Sequences, FiniteSets, Bags, TLC

\* Number of memory ids allocated under Spec.
MaxMem == 2
\* Number of relationships created by relate and linking requests under Spec.
MaxRelate == 1
\* Number of memory ids allocated under SpecChain.
MaxChain == 3
\* Number of memory ids allocated under SpecMeta.
MaxMetaMem == 2

\* Memory ids a client can name under a specification that allocates n ids.
MemIds(n) == 1..n

\* Contents a client sends to create.
Contents == {"x", "y"}
\* Optional[str] = None of MemoryUpdate.content.
NoContent == "<None>"
\* Contents a client sends to update: a content, the empty string, or none.
UpdateContents == Contents \cup {"", NoContent}

\* Metadata maps: string keys to values.  None and {} behave alike in every
\* place the service reads a metadata argument (`metadata or ...`,
\* `if metadata`), so an absent metadata argument is the empty map.
MetaKeys == {"k", "j"}
EmptyMeta == [key \in {} |-> "v"]
Metadatas == {EmptyMeta, [key \in {"k"} |-> "v"],
              [key \in MetaKeys |-> IF key = "k" THEN "w" ELSE "v"]}
\* Requests that carry no metadata.
NoMetadatas == {EmptyMeta}

\* class RelationshipType(str, Enum): the enum's values.
RelationshipType == {"update", "extend", "derive"}
\* Type strings a caller can send: the enum's values and one that is not.
TypeInputs == RelationshipType \cup {"INVALID"}
\* Confidence values a caller can send, in hundredths.
ConfInputs == {-50, 50, 150}

VARIABLES
    driver,     \* Neo4jConnection.driver is set (TRUE) or None (FALSE)
    nodes,      \* Graph Store: memory id -> Memory node properties
    rels,       \* Graph Store: bag of relationships (their ids left out)
    chroma,     \* Vector Index: memory id -> stored vector entry
    nextMem,    \* number of memory ids generated so far
    related,    \* number of relationships created by relate requests
    pc,         \* position of the request being served
    req,        \* locals of the request being served
    ret,        \* response of the request that just finished
    pre,        \* history: the stores as the request being served found them
    versions,   \* history: id -> ids produced by successive head updates
    headOnly,   \* history: only creates, patches and head updates so far
    settings,   \* the deployment: Settings and the models loaded at import
    rag,        \* arguments, locals and result of the retrieval being served
    users,      \* AuthService.users: user id -> User object
    chunker     \* arguments and locals of the chunk_text call being run

vars == <<driver, nodes, rels, chroma, nextMem, related, pc, req, ret, pre,
          versions, headOnly, settings, rag, users, chunker>>

----------------------------------------------------------------------------
\* Pure helpers

\* Mutant of DictUpdate: the patch replaces the stored metadata.
DictReplaced(old, patch) == patch

\* dict.update: the patch's keys win, the other keys are kept.
DictUpdate(old, patch) ==
    [key \in (DOMAIN old) \cup (DOMAIN patch) |->
        IF key \in DOMAIN patch THEN patch[key] ELSE old[key]]

\* Python truthiness of an Optional[str].
Truthy(content) == content # NoContent /\ content # ""

\* Python truthiness of a metadata dict.
TruthyMeta(metadata) == DOMAIN metadata # {}

\* `a or b` on metadata dicts.
MetaOr(a, b) == IF TruthyMeta(a) THEN a ELSE b

\* relationship_type.value.upper()
Upper(t) ==
    CASE t = "update" -> "UPDATE"
      [] t = "extend" -> "EXTEND"
      [] t = "derive" -> "DERIVE"
      [] OTHER -> t

\* The vector the configured embedding backend computes for a text, when it
\* answers.  Vectors have two components in fifths: the backends return
\* vectors of norm 1.
Embed(content) ==
    CASE content = "x" -> <<3, 4>>
      [] content = "y" -> <<4, 3>>
      [] OTHER -> <<5, 0>>

\* np.random.rand(...): components drawn from [0, 1)
RandomVectors == {<<1, 2>>, <<4, 0>>}

\* Settings and the import-time state of app/core/embeddings.py and
\* RAGService._init_reranker: use_openai_embeddings and openai_api_key are
\* the settings; sentence_transformers says that the package imports and its
\* models load; reranker_type is what _init_reranker left (Settings has no
\* cohere_api_key, so it is "bge" or "none").
SettingsSpace ==
    {c \in [use_openai_embeddings : BOOLEAN, openai_api_key : BOOLEAN,
             sentence_transformers : BOOLEAN, reranker_type : {"bge", "none"}] :
        c.reranker_type = "bge" => c.sentence_transformers}

\* Settings() with its defaults and sentence-transformers installed.
DefaultSettings ==
    [use_openai_embeddings |-> FALSE, openai_api_key |-> FALSE,
     sentence_transformers |-> TRUE, reranker_type |-> "bge"]

\* openai_client of embeddings.py: set when the key is
OpenaiClient == settings.openai_api_key

\* sentence_model of embeddings.py: loaded unless OpenAI embeddings are used
SentenceModel ==
    settings.sentence_transformers /\ ~settings.use_openai_embeddings

\* get_embedding(text): the vectors it can return.  The OpenAI call answers
\* or raises; when it raises, or is not configured, the sentence model
\* answers if loaded; otherwise a random vector is returned.
GetEmbedding(text) ==
    (IF settings.use_openai_embeddings /\ OpenaiClient
     THEN {Embed(text)} ELSE {})
    \cup (IF SentenceModel THEN {Embed(text)} ELSE RandomVectors)

NoVersions == [m \in {} |-> <<>>]

\* Locals of a request: its arguments and what update_memory read.
NoReq == [op |-> "none", id |-> 0, content |-> NoContent,
          metadata |-> EmptyMeta, new |-> 0, existing |-> 0,
          target |-> 0, typ |-> "none", conf |-> 0]

\* A response: the status and, for a Memory, the fields of the object.
NoRet == [status |-> "none", id |-> 0, version |-> 0, is_latest |-> FALSE]

----------------------------------------------------------------------------
\* Graph Store and Vector Index primitives

\* The Memory object: version and is_latest are not passed by create_memory,
\* so the object carries the model's defaults.
DefaultVersion == 1

\* MATCH (m:Memory {id: $id}) RETURN m  (None without a session)
GetMemory(id) == driver /\ id \in DOMAIN nodes

\* CREATE (m:Memory {...}) of create_memory.  created_at is the time of the
\* call, read off the model's clock: the number of ids generated so far.
\* The requests modelled pass no source, so source_type and source_id are
\* the defaults ("text", None stored as "").
NewNode(content, metadata) ==
    [content |-> content, version |-> 1, is_latest |-> TRUE,
     metadata |-> metadata, created_at |-> nextMem,
     source_type |-> "text", source_id |-> ""]

\* chroma.collection.add of create_memory
ChromaAdd(id, content, embedding) ==
    chroma @@ (id :> [document |-> content, embedding |-> embedding])

\* Mutant of MarkAsOutdated: the old version keeps is_latest = true.
MarkAsOutdatedSkipped(id) == nodes

\* SET m.is_latest = false of _mark_as_outdated
MarkAsOutdated(id) ==
    IF driver /\ id \in DOMAIN nodes
    THEN [nodes EXCEPT ![id].is_latest = FALSE]
    ELSE nodes

\* Mutant of ConfidenceOk: the upper limit is not checked.
ConfidenceNoUpperLimit(c) == c >= 0

\* Relationship(...) validation of confidence: Field(ge=0.0, le=1.0)
ConfidenceOk(c) == c >= 0 /\ c <= 100

\* Relationship(...) validation of relationship_type: a RelationshipType
TypeOk(t) == t \in RelationshipType

\* the allow-list check of create_relationship
AllowListed(t) == Upper(t) \in {"UPDATE", "EXTEND", "DERIVE"}

\* create_relationship raises before its query runs
CreateRelationshipRaises(t, c) ==
    ~TypeOk(t) \/ ~ConfidenceOk(c) \/ (driver /\ ~AllowListed(t))

\* Mutant of CreateRelationship: the relationship points from target to
\* source.
CreateRelationshipReversed(s, t, typ, c) ==
    IF CreateRelationshipRaises(typ, c) THEN rels
    ELSE IF driver /\ s \in DOMAIN nodes /\ t \in DOMAIN nodes
    THEN rels (+) SetToBag({[source |-> t, target |-> s,
                                 type |-> Upper(typ), confidence |-> c]})
    ELSE rels

\* Mutant of CreateRelationship: the enum's value is used as the type, not
\* its upper-cased form.
CreateRelationshipRawType(s, t, typ, c) ==
    IF CreateRelationshipRaises(typ, c) THEN rels
    ELSE IF driver /\ s \in DOMAIN nodes /\ t \in DOMAIN nodes
    THEN rels (+) SetToBag({[source |-> s, target |-> t,
                                 type |-> typ, confidence |-> c]})
    ELSE rels

\* MATCH (source) MATCH (target) CREATE (source)-[r:TYPE {...}]->(target)
\* as run by create_relationship, read as the graph operation it spells: one
\* relationship source -> target with the given properties; no row, no
\* relationship, when an endpoint is missing
CreateRelationship(s, t, typ, c) ==
    IF CreateRelationshipRaises(typ, c) THEN rels
    ELSE IF driver /\ s \in DOMAIN nodes /\ t \in DOMAIN nodes
    THEN rels (+) SetToBag({[source |-> s, target |-> t,
                                 type |-> Upper(typ), confidence |-> c]})
    ELSE rels

\* MATCH (m:Memory {id: $id}) DETACH DELETE m
DetachDeleteNodes(id) == [m \in (DOMAIN nodes) \ {id} |-> nodes[m]]

\* Mutant of DetachDeleteRels: the node's relationships are left behind.
DetachDeleteRelsKept(id) == rels

DetachDeleteRels(id) ==
    [r \in {e \in DOMAIN rels : e.source # id /\ e.target # id} |-> rels[r]]

\* chroma.collection.delete(ids=[id])
ChromaDelete(id) == [m \in (DOMAIN chroma) \ {id} |-> chroma[m]]

----------------------------------------------------------------------------
\* get_memory_lineage (GET /lineage/{memory_id})

\* The UPDATE relationships of the graph, one element per relationship: a bag
\* entry with n copies stands for n parallel relationships.
UpdateEdges ==
    UNION {{<<r, i>> : i \in 1..rels[r]} :
              r \in {e \in DOMAIN rels : e.type = "UPDATE"}}

Range(f) == {f[i] : i \in DOMAIN f}

\* (start)-[r:UPDATE*]->(end): a path uses no relationship twice
Grow(P) ==
    P \cup {Append(pe[1], pe[2]) :
              pe \in {x \in P \X UpdateEdges :
                        /\ x[2] \notin Range(x[1])
                        /\ x[2][1].source = x[1][Len(x[1])][1].target}}

RECURSIVE GrowTimes(_, _)
GrowTimes(P, n) == IF n = 0 THEN P ELSE GrowTimes(Grow(P), n - 1)

\* MATCH path = (start:Memory {id: $id})-[r:UPDATE*]->(end:Memory)
UpdatePaths(id) ==
    GrowTimes({<<e>> : e \in {x \in UpdateEdges : x[1].source = id}},
              Cardinality(UpdateEdges))

\* nodes(path)
NodesOf(p) == <<p[1][1].source>> \o [i \in 1..Len(p) |-> p[i][1].target]

\* WHERE end.is_latest = true
LatestPaths(id) ==
    {p \in UpdatePaths(id) : nodes[p[Len(p)][1].target].is_latest}

\* ORDER BY length(path) DESC LIMIT 1: any one of the longest paths
LongestPaths(P) == {p \in P : \A q \in P : Len(q) <= Len(p)}

\* The id lists get_memory_lineage can answer with: none without a session
\* (503) or for an unknown id (404).
Lineage(id) ==
    IF ~driver THEN {}
    ELSE IF LatestPaths(id) # {}
    THEN {NodesOf(p) : p \in LongestPaths(LatestPaths(id))}
    ELSE IF GetMemory(id) THEN {<<id>>}
    ELSE {}

----------------------------------------------------------------------------
NoNodes == [m \in {} |-> NewNode("x", EmptyMeta)]
NoChroma == [m \in {} |-> [document |-> "x", embedding |-> Embed("x")]]

\* The stores as a request found them.
Snapshot == [nodes |-> nodes, rels |-> rels, chroma |-> chroma]
NoPre == [nodes |-> NoNodes, rels |-> EmptyBag, chroma |-> NoChroma]

\* No retrieval is being served.
NoRag == [op |-> "none"]

\* AuthService.__init__: no user yet.
NoUsers == <<>>

\* No chunk_text call is being run.
NoChunker == [pc |-> "none"]

\* The stores and the request state after start-up.
InitStores ==
    /\ driver \in BOOLEAN
    /\ nodes = NoNodes
    /\ rels = EmptyBag
    /\ chroma = NoChroma
    /\ nextMem = 0
    /\ related = 0
    /\ pc = "idle"
    /\ req = NoReq
    /\ ret = NoRet
    /\ pre = NoPre
    /\ versions = NoVersions
    /\ headOnly = TRUE
    /\ rag = NoRag
    /\ users = NoUsers
    /\ chunker = NoChunker

Init == InitStores /\ settings = DefaultSettings

----------------------------------------------------------------------------
\* Requests.  The endpoints are `async def` functions that call the service
\* synchronously, so a request runs to its end before the next one starts;
\* the stores are visible between the writes of one request.  A request ends
\* in pc = "done" with its response in ret; Return hands the response over.

Respond(status, id, version, latest) ==
    [status |-> status, id |-> id, version |-> version, is_latest |-> latest]

\* the Memory object create_memory returns
CreatedMemory(id) == Respond("ok", id, DefaultVersion, TRUE)

\* create_memory, first write: the embedding is computed and goes to ChromaDB
CreateBegin(content, metadata) ==
    /\ pc = "idle"
    /\ nextMem' = nextMem + 1
    /\ \E embedding \in GetEmbedding(content) :
          chroma' = ChromaAdd(nextMem + 1, content, embedding)
    /\ req' = [NoReq EXCEPT !.op = "create", !.new = nextMem + 1,
                            !.content = content, !.metadata = metadata]
    /\ pre' = Snapshot
    /\ pc' = "create_graph"
    /\ UNCHANGED <<driver, settings, rag, nodes, rels, related, ret, versions,
                   headOnly, users, chunker>>

\* create_memory, second write: the node goes to Neo4j when a session exists
CreateGraph ==
    /\ pc = "create_graph"
    /\ nodes' = IF driver
                THEN nodes @@ (req.new :> NewNode(req.content, req.metadata))
                ELSE nodes
    /\ versions' = IF headOnly /\ driver
                   THEN versions @@ (req.new :> <<req.new>>)
                   ELSE versions
    /\ ret' = CreatedMemory(req.new)
    /\ pc' = "done"
    /\ UNCHANGED <<driver, settings, rag, rels, chroma, nextMem, related, req,
                   pre, headOnly, users, chunker>>

\* update_memory: get_memory returns None, the endpoint answers 404
UpdateNotFound(id) ==
    /\ pc = "idle"
    /\ ~GetMemory(id)
    /\ req' = [NoReq EXCEPT !.op = "update", !.id = id]
    /\ pre' = Snapshot
    /\ ret' = Respond("not_found", 0, 0, FALSE)
    /\ pc' = "done"
    /\ UNCHANGED <<driver, settings, rag, nodes, rels, chroma, nextMem,
                   related, versions, headOnly, users, chunker>>

\* `if content and content != existing.content`
ContentChanged(id, content) == Truthy(content) /\ content # nodes[id].content

\* update_memory, content changed: the old version is marked outdated
UpdateBegin(id, content, metadata) ==
    /\ pc = "idle"
    /\ GetMemory(id)
    /\ ContentChanged(id, content)
    /\ nodes' = MarkAsOutdated(id)
    /\ req' = [NoReq EXCEPT !.op = "update", !.id = id, !.content = content,
                            !.metadata = MetaOr(metadata, nodes[id].metadata),
                            !.existing = nodes[id].version]
    /\ pre' = Snapshot
    /\ pc' = "upd_marked"
    /\ UNCHANGED <<driver, settings, rag, rels, chroma, nextMem, related, ret,
                   versions, headOnly, users, chunker>>

\* update_memory -> create_memory: embedding and first write
UpdateChroma ==
    /\ pc = "upd_marked"
    /\ nextMem' = nextMem + 1
    /\ \E embedding \in GetEmbedding(req.content) :
          chroma' = ChromaAdd(nextMem + 1, req.content, embedding)
    /\ req' = [req EXCEPT !.new = nextMem + 1]
    /\ pc' = "upd_graph"
    /\ UNCHANGED <<driver, settings, rag, nodes, rels, related, ret, pre,
                   versions, headOnly, users, chunker>>

\* update_memory -> create_memory, second write
UpdateGraph ==
    /\ pc = "upd_graph"
    /\ nodes' = IF driver
                THEN nodes @@ (req.new :> NewNode(req.content, req.metadata))
                ELSE nodes
    /\ pc' = "upd_link"
    /\ UNCHANGED <<driver, settings, rag, rels, chroma, nextMem, related, req,
                   ret, pre, versions, headOnly, users, chunker>>

\* update_memory: the UPDATE relationship old -> new, then the new Memory
\* object is returned
UpdateLink ==
    /\ pc = "upd_link"
    /\ rels' = CreateRelationship(req.id, req.new, "update", 100)
    /\ headOnly' = (headOnly /\ pre.nodes[req.id].is_latest)
    /\ versions' = IF headOnly'
                   THEN [m \in (DOMAIN versions) \cup {req.new} |->
                           IF m = req.new THEN <<req.new>>
                           ELSE IF versions[m][Len(versions[m])] = req.id
                           THEN Append(versions[m], req.new)
                           ELSE versions[m]]
                   ELSE NoVersions
    /\ ret' = CreatedMemory(req.new)
    /\ pc' = "done"
    /\ UNCHANGED <<driver, settings, rag, nodes, chroma, nextMem, related,
                   req, pre, users, chunker>>

\* Mutant of SetMetadata: the statement stamps created_at, not updated_at.
SetMetadataStampsCreation(id, metadata) ==
    [nodes EXCEPT ![id].metadata =
                      IF TruthyMeta(metadata) THEN DictUpdate(@, metadata)
                      ELSE @,
                  ![id].created_at = nextMem + 1]

\* MATCH (m:Memory {id: $id}) SET m.updated_at = ..., m.metadata = $metadata
\* with the metadata update_memory merged (updated_at is not modelled)
SetMetadata(id, metadata) ==
    [nodes EXCEPT ![id].metadata =
                      IF TruthyMeta(metadata) THEN DictUpdate(@, metadata)
                      ELSE @]

\* update_memory, content absent or unchanged: metadata patch in place; the
\* object read by get_memory is returned
UpdatePatch(id, content, metadata) ==
    /\ pc = "idle"
    /\ GetMemory(id)
    /\ ~ContentChanged(id, content)
    /\ nodes' = SetMetadata(id, metadata)
    /\ req' = [NoReq EXCEPT !.op = "patch", !.id = id, !.content = content,
                            !.metadata = metadata]
    /\ pre' = Snapshot
    /\ ret' = Respond("ok", id, nodes[id].version, nodes[id].is_latest)
    /\ pc' = "done"
    /\ UNCHANGED <<driver, settings, rag, rels, chroma, nextMem, related,
                   versions, headOnly, users, chunker>>

\* delete_memory without a session: returns False, the endpoint answers 404
DeleteNoSession(id) ==
    /\ pc = "idle"
    /\ ~driver
    /\ req' = [NoReq EXCEPT !.op = "delete", !.id = id]
    /\ pre' = Snapshot
    /\ ret' = Respond("false", 0, 0, FALSE)
    /\ pc' = "done"
    /\ UNCHANGED <<driver, settings, rag, nodes, rels, chroma, nextMem,
                   related, versions, headOnly, users, chunker>>

\* delete_memory, first write: DETACH DELETE in Neo4j
DeleteBegin(id) ==
    /\ pc = "idle"
    /\ driver
    /\ nodes' = DetachDeleteNodes(id)
    /\ rels' = DetachDeleteRels(id)
    /\ req' = [NoReq EXCEPT !.op = "delete", !.id = id]
    /\ pre' = Snapshot
    /\ pc' = "del_chroma"
    /\ UNCHANGED <<driver, settings, rag, chroma, nextMem, related, ret,
                   versions, headOnly, users, chunker>>

\* the value delete_memory returns once its session is open
DeleteResult(existed) == "true"

\* delete_memory, second write: the vector is deleted; returns
DeleteChroma ==
    /\ pc = "del_chroma"
    /\ chroma' = ChromaDelete(req.id)
    /\ headOnly' = (headOnly /\ req.id \notin DOMAIN pre.nodes)
    /\ versions' = IF headOnly' THEN versions ELSE NoVersions
    /\ ret' = Respond(DeleteResult(req.id \in DOMAIN pre.nodes), 0, 0, FALSE)
    /\ pc' = "done"
    /\ UNCHANGED <<driver, settings, rag, nodes, rels, nextMem, related, req,
                   pre, users, chunker>>

\* The arguments a refused request was refused for are kept; the ones that
\* played no part are left at their defaults.
RelateReq(s, t, typ, c) ==
    [NoReq EXCEPT !.op = "relate", !.id = s, !.target = t, !.typ = typ,
                  !.conf = c]

\* POST /{memory_id}/relationships: the relationship_type parameter is not a
\* RelationshipType, the request is refused before the handler runs
RelateInvalid(s, t, typ, c) ==
    /\ pc = "idle"
    /\ ~TypeOk(typ)
    /\ req' = RelateReq(0, 0, typ, 0)
    /\ pre' = Snapshot
    /\ ret' = Respond("invalid", 0, 0, FALSE)
    /\ pc' = "done"
    /\ UNCHANGED <<driver, settings, rag, nodes, rels, chroma, nextMem,
                   related, versions, headOnly, users, chunker>>

\* POST /{memory_id}/relationships: source or target memory not found
RelateNotFound(s, t, typ, c) ==
    /\ pc = "idle"
    /\ TypeOk(typ)
    /\ ~(GetMemory(s) /\ GetMemory(t))
    /\ req' = RelateReq(s, t, "none", 0)
    /\ pre' = Snapshot
    /\ ret' = Respond("not_found", 0, 0, FALSE)
    /\ pc' = "done"
    /\ UNCHANGED <<driver, settings, rag, nodes, rels, chroma, nextMem,
                   related, versions, headOnly, users, chunker>>

\* POST /{memory_id}/relationships: create_relationship raises
RelateError(s, t, typ, c) ==
    /\ pc = "idle"
    /\ TypeOk(typ)
    /\ GetMemory(s) /\ GetMemory(t)
    /\ CreateRelationshipRaises(typ, c)
    /\ rels' = CreateRelationship(s, t, typ, c)
    /\ req' = RelateReq(0, 0, typ, c)
    /\ pre' = Snapshot
    /\ ret' = Respond("error", 0, 0, FALSE)
    /\ pc' = "done"
    /\ UNCHANGED <<driver, settings, rag, nodes, chroma, nextMem, related,
                   versions, headOnly, users, chunker>>

\* POST /{memory_id}/relationships: the relationship is created
Relate(s, t, typ, c) ==
    /\ pc = "idle"
    /\ TypeOk(typ)
    /\ GetMemory(s) /\ GetMemory(t)
    /\ ~CreateRelationshipRaises(typ, c)
    /\ related' = related + 1
    /\ rels' = CreateRelationship(s, t, typ, c)
    /\ headOnly' = (headOnly /\ typ # "update")
    /\ versions' = IF headOnly' THEN versions ELSE NoVersions
    /\ req' = RelateReq(s, t, typ, c)
    /\ pre' = Snapshot
    /\ ret' = Respond("ok", 0, 0, FALSE)
    /\ pc' = "done"
    /\ UNCHANGED <<driver, settings, rag, nodes, chroma, nextMem, users,
                   chunker>>

\* derive_insights and the PDF upload link two memories with the similarity
\* they computed as confidence: the call of create_relationship they make,
\* on ids they read from the graph (list_memories) or from the vector
\* collection (the memory just created, the hits of a similarity search).
\* It raises (the endpoint answers 500) or returns the Relationship object.
LinkBySimilarity(s, t, typ, sim) ==
    /\ pc = "idle"
    /\ TypeOk(typ)
    /\ related' = IF CreateRelationshipRaises(typ, sim) THEN related
                  ELSE related + 1
    /\ rels' = CreateRelationship(s, t, typ, sim)
    /\ req' = [NoReq EXCEPT !.op = "link", !.id = s, !.target = t,
                            !.typ = typ, !.conf = sim]
    /\ pre' = Snapshot
    /\ ret' = Respond(IF CreateRelationshipRaises(typ, sim) THEN "error"
                      ELSE "ok", 0, 0, FALSE)
    /\ pc' = "done"
    /\ UNCHANGED <<driver, settings, rag, nodes, chroma, nextMem, versions,
                   headOnly, users, chunker>>

\* the response is handed to the client; the next request can start
Return ==
    /\ pc = "done"
    /\ pc' = "idle"
    /\ req' = NoReq
    /\ ret' = NoRet
    /\ pre' = NoPre
    /\ rag' = NoRag
    /\ UNCHANGED <<driver, settings, nodes, rels, chroma, nextMem, related,
                   versions, headOnly, users, chunker>>

\* The create, update and delete requests, with at most cap memory ids
\* allocated and metadata arguments drawn from metas.
Versioning(cap, metas) ==
    \/ /\ nextMem < cap
       /\ \E content \in Contents, metadata \in metas :
             CreateBegin(content, metadata)
    \/ CreateGraph
    \/ \E id \in MemIds(cap) : UpdateNotFound(id)
    \/ /\ nextMem < cap
       /\ \E id \in MemIds(cap), content \in UpdateContents,
             metadata \in metas : UpdateBegin(id, content, metadata)
    \/ \E id \in MemIds(cap), content \in UpdateContents, metadata \in metas :
          UpdatePatch(id, content, metadata)
    \/ UpdateChroma
    \/ UpdateGraph
    \/ UpdateLink
    \/ \E id \in MemIds(cap) : DeleteNoSession(id)
    \/ \E id \in MemIds(cap) : DeleteBegin(id)
    \/ DeleteChroma
    \/ Return

\* The requests that create relationships among the first n memory ids, at
\* most cap of them succeeding.
RelatingAmong(n, cap) ==
    \/ \E s \in MemIds(n), t \in MemIds(n), typ \in TypeInputs,
          c \in ConfInputs :
          \/ RelateInvalid(s, t, typ, c)
          \/ RelateNotFound(s, t, typ, c)
          \/ RelateError(s, t, typ, c)
          \/ related < cap /\ Relate(s, t, typ, c)
    \/ \E s \in MemIds(n), t \in MemIds(n),
          typ \in {"extend", "derive"}, sim \in ConfInputs :
          /\ s # t
          /\ {s, t} \subseteq (DOMAIN chroma) \cup (DOMAIN nodes)
          /\ related < cap
          /\ LinkBySimilarity(s, t, typ, sim)

\* The requests that create relationships, at most cap of them succeeding.
Relating(cap) == RelatingAmong(MaxMem, cap)

Next == Versioning(MaxMem, NoMetadatas) \/ Relating(MaxRelate)

Spec == Init /\ [][Next]_vars

----------------------------------------------------------------------------
\* Retrieval Pipeline (app/services/rag_service.py) and the similarity search
\* of the Memory Store.  Scores are hundredths.

\* Query texts: the content of a stored memory, and another text.
Queries == {"x", "q"}
\* limit of a retrieval
Limits == {1, 2}
\* min_similarity of a retrieval
Thresholds == {0, 50, 96}
\* rerank_top_k of a retrieval; 0 stands for None (`rerank_top_k or limit * 2`
\* reads both alike)
TopKs == {0, 1, 2}
\* Relevance scores the cross-encoder can give a document.
RerankScores == {10, 50, 60}

RetrieveArgs ==
    [query : Queries, limit : Limits, min_similarity : Thresholds,
     rerank : BOOLEAN, rerank_top_k : TopKs]

Min(a, b) == IF a <= b THEN a ELSE b

\* seq[:n] for n >= 0
Take(seq, n) == SubSeq(seq, 1, Min(n, Len(seq)))

\* The distance of the collection: it is created without an "hnsw:space", so
\* the squared L2 distance.  Vector components are fifths, the result is in
\* hundredths.
Distance(a, b) ==
    4 * ((a[1] - b[1]) * (a[1] - b[1]) + (a[2] - b[2]) * (a[2] - b[2]))

\* collection.query(query_embeddings=[qvec], n_results=n): the n nearest
\* entries by ascending distance; entries at the same distance come in any
\* order.
ChromaQuery(qvec, n) ==
    {Take(f, n) :
        f \in {g \in [1..Cardinality(DOMAIN chroma) -> DOMAIN chroma] :
                 /\ \A i, j \in DOMAIN g : i # j => g[i] # g[j]
                 /\ \A i, j \in DOMAIN g :
                       i < j => Distance(qvec, chroma[g[i]].embedding)
                                   <= Distance(qvec, chroma[g[j]].embedding)}}

\* Mutant of SearchSimilarMemories: the threshold is not applied.
SearchSimilarMemoriesUnfiltered(hits, qvec, min_similarity) ==
    [i \in 1..Len(hits) |->
        [id |-> hits[i],
         similarity |-> 100 - Distance(qvec, chroma[hits[i]].embedding),
         content |-> chroma[hits[i]].document]]

\* search_similar_memories after the query: similarity = 1 - distance, the
\* hits below min_similarity are dropped, the order is kept
SearchSimilarMemories(hits, qvec, min_similarity) ==
    SelectSeq([i \in 1..Len(hits) |->
                  [id |-> hits[i],
                   similarity |->
                       100 - Distance(qvec, chroma[hits[i]].embedding),
                   content |-> chroma[hits[i]].document]],
              LAMBDA row : row.similarity >= min_similarity)

\* list.sort(key=lambda x: x[1], reverse=True) / sorted(...): descending by
\* score, rows of equal score keep their order
InsertDesc(sorted, row) ==
    LET p == Cardinality({i \in DOMAIN sorted : sorted[i].score >= row.score})
    IN SubSeq(sorted, 1, p) \o <<row>> \o SubSeq(sorted, p + 1, Len(sorted))

RECURSIVE SortedDesc(_)
SortedDesc(rows) ==
    IF rows = <<>> THEN <<>>
    ELSE InsertDesc(SortedDesc(SubSeq(rows, 1, Len(rows) - 1)),
                    rows[Len(rows)])

\* [(doc, score, idx) for idx, (doc, score) in enumerate(zip(documents,
\* scores))]; indices count from 1 here
Indexed(similar) ==
    [i \in 1..Len(similar) |->
        [doc |-> similar[i].content, score |-> similar[i].similarity,
         idx |-> i]]

\* rerank_results(query, documents, scores, top_k): predict maps a document
\* to the score the cross-encoder gives it, fails says that the call of the
\* cross-encoder raises.  The handler of that exception reads the name doc,
\* which is bound nowhere in the function: NameError leaves rerank_results.
RerankResults(similar, top_k, predict, fails) ==
    IF similar = <<>> \/ settings.reranker_type = "none"
    THEN [status |-> "ok", rows |-> SortedDesc(Indexed(similar))]
    ELSE LET top_docs == IF top_k # 0
                         THEN Take(SortedDesc(Indexed(similar)), top_k)
                         ELSE Indexed(similar)
         IN IF fails
            THEN [status |-> "error", rows |-> <<>>]
            ELSE [status |-> "ok",
                  rows |-> SortedDesc([i \in 1..Len(top_docs) |->
                              [doc |-> top_docs[i].doc,
                               score |-> predict[top_docs[i].doc],
                               idx |-> top_docs[i].idx]])]

\* Mutant of HybridScore: the sum of the two scores is not halved.
HybridScoreSum(similarity, rerank_score) == similarity + rerank_score

\* "final_score": (scores[orig_idx] + rerank_score) / 2; the scores of this
\* model are even numbers of hundredths, so the halving is exact
HybridScore(similarity, rerank_score) == (similarity + rerank_score) \div 2

\* the result rows of retrieve with reranking: the memories get_memory finds
RerankedRows(similar, reranked) ==
    SelectSeq([i \in 1..Len(reranked) |->
                  [id |-> similar[reranked[i].idx].id,
                   content |-> similar[reranked[i].idx].content,
                   similarity_score |-> similar[reranked[i].idx].similarity,
                   rerank_score |-> <<reranked[i].score>>,
                   final_score |->
                       HybridScore(similar[reranked[i].idx].similarity,
                                   reranked[i].score)]],
              LAMBDA row : GetMemory(row.id))

\* the result rows of retrieve without reranking; rerank_score is None
PlainRows(similar) ==
    SelectSeq([i \in 1..Len(similar) |->
                  [id |-> similar[i].id,
                   content |-> similar[i].content,
                   similarity_score |-> similar[i].similarity,
                   rerank_score |-> <<>>,
                   final_score |-> similar[i].similarity]],
              LAMBDA row : GetMemory(row.id))

\* Was the cross-encoder called for these candidates?
BackendCalled(a, similar) ==
    a.rerank /\ Len(similar) > 1 /\ settings.reranker_type = "bge"

NoPredict == [doc \in {} |-> 0]

\* retrieve(query, limit, min_similarity, rerank, rerank_top_k) once the
\* query is embedded (qvec) and the collection has answered (hits)
RetrieveOutcome(a, qvec, hits, predict, fails) ==
    LET similar == SearchSimilarMemories(hits, qvec, a.min_similarity)
        top_k == IF a.rerank_top_k # 0 THEN a.rerank_top_k ELSE a.limit * 2
        rr == RerankResults(similar, top_k, predict, fails)
        called == BackendCalled(a, similar)
    IN [args |-> a, qvec |-> qvec, similar |-> similar,
        stage |-> a.rerank /\ Len(similar) > 1,
        top_k |-> top_k,
        predict |-> IF called /\ ~fails THEN predict ELSE NoPredict,
        fails |-> called /\ fails,
        reranked |-> IF a.rerank /\ Len(similar) > 1 THEN rr.rows ELSE <<>>,
        status |-> IF a.rerank /\ Len(similar) > 1 THEN rr.status ELSE "ok",
        results |-> IF similar = <<>> THEN <<>>
                    ELSE IF a.rerank /\ Len(similar) > 1
                    THEN RerankedRows(similar, Take(rr.rows, a.limit))
                    ELSE PlainRows(Take(similar, a.limit))]

\* What the cross-encoder can do when retrieve calls it: raise, or score
\* each document; nothing when it is not called.
BackendAnswers(a, similar) ==
    IF BackendCalled(a, similar)
    THEN ([Contents -> RerankScores] \X {FALSE})
            \cup {<<NoPredict, TRUE>>}
    ELSE {<<NoPredict, FALSE>>}

\* the outcomes retrieve can have in the current state
RetrieveOutcomes(a) ==
    UNION {UNION {{RetrieveOutcome(a, qvec, hits, b[1], b[2]) :
                      b \in BackendAnswers(a,
                               SearchSimilarMemories(hits, qvec,
                                                     a.min_similarity))} :
                  hits \in ChromaQuery(qvec,
                              IF a.rerank THEN a.limit * 2 ELSE a.limit)} :
           qvec \in GetEmbedding(a.query)}

\* POST /retrieve: rag_service.retrieve; an exception is answered with 500
Retrieve(a) ==
    /\ pc = "idle"
    /\ \E o \in RetrieveOutcomes(a) :
          /\ rag' = [op |-> "retrieve"] @@ o
          /\ ret' = Respond(o.status, 0, 0, FALSE)
    /\ req' = [NoReq EXCEPT !.op = "retrieve"]
    /\ pre' = Snapshot
    /\ pc' = "done"
    /\ UNCHANGED <<driver, settings, nodes, rels, chroma, nextMem, related,
                   versions, headOnly, users, chunker>>

\* context_parts of generate: the line "[i] content" for the i-th memory
ContextParts(context_memories) ==
    [i \in 1..Len(context_memories) |->
        [index |-> i, memory |-> context_memories[i].id,
         content |-> context_memories[i].content]]

\* Mutant of Citations: the citations are listed in the reverse order.
CitationsReversed(context_memories) ==
    [i \in 1..Len(context_memories) |->
        [memory_id |->
             context_memories[Len(context_memories) + 1 - i].id,
         relevance_score |->
             context_memories[Len(context_memories) + 1 - i].final_score]]

\* citations of generate: appended in the loop that builds context_parts
Citations(context_memories) ==
    [i \in 1..Len(context_memories) |->
        [memory_id |-> context_memories[i].id,
         relevance_score |-> context_memories[i].final_score]]

\* What rag_query adds to the outcome of retrieve.
Answer(status, answer, invoked, context, citations) ==
    [outcome |-> status, answer |-> answer, invoked |-> invoked,
     context |-> context, citations |-> citations]

\* Mutant of GenerateOutcome: the credentials are checked and the backend is
\* called whatever was retrieved.
GenerateAlways(results, error) ==
    IF ~settings.openai_api_key
    THEN Answer("error", "none", FALSE, <<>>, <<>>)
    ELSE IF error
    THEN Answer("error", "none", TRUE, ContextParts(results), <<>>)
    ELSE Answer("ok", "generated", TRUE, ContextParts(results),
                Citations(results))

\* rag_query after retrieve: the fixed answer when nothing was retrieved,
\* else generate, which raises without an API key, calls the OpenAI client
\* with the context, and raises when the call does (error)
GenerateOutcome(results, error) ==
    IF results = <<>>
    THEN Answer("ok", "fallback", FALSE, <<>>, <<>>)
    ELSE IF ~settings.openai_api_key
    THEN Answer("error", "none", FALSE, <<>>, <<>>)
    ELSE IF error
    THEN Answer("error", "none", TRUE, ContextParts(results), <<>>)
    ELSE Answer("ok", "generated", TRUE, ContextParts(results),
                Citations(results))

\* POST /query: rag_service.rag_query; an exception is answered with 500
RagQuery(a) ==
    /\ pc = "idle"
    /\ \E o \in RetrieveOutcomes(a), error \in BOOLEAN :
          LET g == IF o.status = "error"
                   THEN Answer("error", "none", FALSE, <<>>, <<>>)
                   ELSE GenerateOutcome(o.results, error)
          IN /\ rag' = [op |-> "rag_query"] @@ g @@ o
             /\ ret' = Respond(g.outcome, 0, 0, FALSE)
    /\ req' = [NoReq EXCEPT !.op = "rag_query"]
    /\ pre' = Snapshot
    /\ pc' = "done"
    /\ UNCHANGED <<driver, settings, nodes, rels, chroma, nextMem, related,
                   versions, headOnly, users, chunker>>

\* The memories of a corpus are created; at most cap of them.
Corpus(cap) ==
    \/ /\ nextMem < cap
       /\ \E content \in Contents : CreateBegin(content, EmptyMeta)
    \/ CreateGraph
    \/ Return

\* Versioning alone, on longer chains.
NextChain == Versioning(MaxChain, NoMetadatas)

SpecChain == Init /\ [][NextChain]_vars

\* Versioning alone, with metadata arguments.
NextMeta == Versioning(MaxMetaMem, Metadatas)

SpecMeta == Init /\ [][NextMeta]_vars

\* The deployments the retrieval is checked in: the embedding backend works.
RagSettings ==
    {c \in SettingsSpace : ~c.use_openai_embeddings /\ c.sentence_transformers}

\* Number of memory ids allocated under SpecRag.
MaxRagMem == 3

InitRag == InitStores /\ settings \in RagSettings

\* A corpus is created and queried.
NextRag ==
    \/ Corpus(MaxRagMem)
    \/ \E a \in RetrieveArgs : Retrieve(a)
    \/ \E a \in RetrieveArgs : RagQuery(a)

SpecRag == InitRag /\ [][NextRag]_vars

\* Number of memory ids allocated under SpecThreshold.
MaxThresholdMem == 2

\* A corpus is created and searched through retrieve.
NextThreshold ==
    \/ Corpus(MaxThresholdMem)
    \/ \E a \in RetrieveArgs : Retrieve(a)

SpecThreshold == InitRag /\ [][NextThreshold]_vars

\* Number of memory ids allocated under SpecEmbed.
MaxEmbedMem == 2

\* The deployments the embedding is checked in: every state of the embedding
\* backends, no reranker.
EmbedSettings == {c \in SettingsSpace : c.reranker_type = "none"}

InitEmbed == InitStores /\ settings \in EmbedSettings

\* Memories are created, updated, deleted and searched without reranking.
NextEmbed ==
    \/ Versioning(MaxEmbedMem, NoMetadatas)
    \/ \E a \in {b \in RetrieveArgs : ~b.rerank /\ b.rerank_top_k = 0} :
          Retrieve(a)

SpecEmbed == InitEmbed /\ [][NextEmbed]_vars

----------------------------------------------------------------------------
\* Graph analytics (app/api/graph.py)

\* Similarity thresholds a caller of derive_insights sends, in hundredths;
\* 85 is the default.
DeriveThresholds == {50, 85, 100}

\* list_memories(limit=1000) of derive_insights
DeriveListLimit == 1000

\* collection.get(ids=[id]) of get_memory: the call names no `include`, so
\* the result carries documents and metadatas and its "embeddings" entry is
\* None (written <<>>; an entry that is there is written <<vector>>)
ChromaGetEmbeddings(id) == <<>>

\* Memory.embedding as get_memory sets it: only from a truthy "embeddings"
HydratedEmbedding(id) ==
    IF ChromaGetEmbeddings(id) # <<>> THEN <<ChromaGetEmbeddings(id)[1]>>
    ELSE <<>>

\* the integer square root
ISqrt(n) == CHOOSE r \in 0..n : r * r <= n /\ n < (r + 1) * (r + 1)

\* cosine_similarity of graph.py: dot / (norm1 * norm2), in hundredths
\* (exact for the vectors of the embedding backend, which have one norm)
CosineSimilarity(a, b) ==
    (100 * (a[1] * b[1] + a[2] * b[2]))
        \div ISqrt((a[1] * a[1] + a[2] * a[2]) * (b[1] * b[1] + b[2] * b[2]))

\* ORDER BY m.created_at DESC
RECURSIVE NewestFirst(_)
NewestFirst(S) ==
    IF S = {} THEN <<>>
    ELSE LET m == CHOOSE x \in S :
                     \A y \in S : nodes[y].created_at <= nodes[x].created_at
         IN  <<m>> \o NewestFirst(S \ {m})

\* list_memories(limit, 0): the ids of the Memory nodes, newest first, each
\* hydrated by get_memory; [] without a session
ListMemories(limit) ==
    IF driver THEN Take(NewestFirst(DOMAIN nodes), limit) ELSE <<>>

\* itertools.combinations(seq, 2), in its order
Combinations2(seq) ==
    LET n == Len(seq)
        RECURSIVE From(_, _)
        From(i, j) ==
            IF i >= n THEN <<>>
            ELSE IF j > n THEN From(i + 1, i + 2)
            ELSE <<<<seq[i], seq[j]>>>> \o From(i, j + 1)
    IN  From(1, 2)

\* get_related_memories(id) on the relationships R: the targets of the
\* relationships that leave id, each hydrated by get_memory; [] without a
\* session
RelatedIn(R, id) ==
    IF driver
    THEN {e.target : e \in {x \in DOMAIN R : x.source = id}} \cap DOMAIN nodes
    ELSE {}

\* create_relationship on the relationships R (CreateRelationship, inside a
\* loop that has created relationships already)
CreateRelationshipIn(R, s, t, typ, c) ==
    IF CreateRelationshipRaises(typ, c) THEN R
    ELSE IF driver /\ s \in DOMAIN nodes /\ t \in DOMAIN nodes
    THEN R (+) SetToBag({[source |-> s, target |-> t,
                              type |-> Upper(typ), confidence |-> c]})
    ELSE R

\* the loop of derive_insights over the pairs, from the relationships R
RECURSIVE DeriveLoop(_, _, _)
DeriveLoop(pairs, threshold, R) ==
    IF pairs = <<>> THEN R
    ELSE LET mem1 == Head(pairs)[1]
             mem2 == Head(pairs)[2]
             e1 == HydratedEmbedding(mem1)
             e2 == HydratedEmbedding(mem2)
             similarity == CosineSimilarity(e1[1], e2[1])
         IN  DeriveLoop(Tail(pairs), threshold,
                 IF /\ e1 # <<>> /\ e2 # <<>>
                    /\ similarity >= threshold
                    /\ mem2 \notin RelatedIn(R, mem1)
                 THEN CreateRelationshipIn(R, mem1, mem2, "derive",
                                           similarity)
                 ELSE R)

\* POST /graph/derive-insights: the memories listed, the latest of them
\* paired
DeriveInsights(threshold) ==
    /\ pc = "idle"
    /\ rels' = DeriveLoop(
                   Combinations2(SelectSeq(ListMemories(DeriveListLimit),
                                           LAMBDA m : nodes[m].is_latest)),
                   threshold, rels)
    /\ req' = [NoReq EXCEPT !.op = "derive", !.conf = threshold]
    /\ pre' = Snapshot
    /\ ret' = Respond("ok", 0, 0, FALSE)
    /\ pc' = "done"
    /\ UNCHANGED <<driver, settings, rag, nodes, chroma, nextMem, related,
                   versions, headOnly, users, chunker>>

\* Arguments of multi_hop_search: max_hops (default 2), limit and the
\* relationship types to follow (none given: every type).
MaxHops == {1, 2}
HopLimits == {1, 2, 3}
TypeFilters == {{}, {"update"}, {"extend", "derive"}}

\* The relationships of the graph, one element per relationship.
AllEdges == UNION {{<<r, i>> : i \in 1..rels[r]} : r \in DOMAIN rels}

\* -[r:T1|T2]-> : the relationships of the upper-cased types; every
\* relationship when no type is given
EdgesOfTypes(types) ==
    {x \in AllEdges : types = {} \/ x[1].type \in {Upper(t) : t \in types}}

\* one more relationship on each path; a path uses no relationship twice
GrowOver(P, E) ==
    P \cup {Append(pe[1], pe[2]) :
              pe \in {x \in P \X E :
                        /\ x[2] \notin Range(x[1])
                        /\ x[2][1].source = x[1][Len(x[1])][1].target}}

RECURSIVE GrowOverTimes(_, _, _)
GrowOverTimes(P, E, n) ==
    IF n = 0 THEN P ELSE GrowOverTimes(GrowOver(P, E), E, n - 1)

\* MATCH path = (start:Memory {id: $start_id})-[r:T*1..max_hops]->(connected)
HopPaths(start_id, types, max_hops) ==
    GrowOverTimes({<<e>> : e \in {x \in EdgesOfTypes(types) :
                                       x[1].source = start_id}},
                  EdgesOfTypes(types), max_hops - 1)

\* WHERE connected.is_latest = true RETURN DISTINCT connected.id,
\* connected.content, length(path), [rel in relationships(path) | type(rel)]
\* : the distinct rows (content is a function of the id and left out)
HopRows(start_id, types, max_hops) ==
    {[memory_id |-> p[Len(p)][1].target, hop_count |-> Len(p),
      relationship_types |-> [i \in 1..Len(p) |-> p[i][1].type]] :
        p \in {q \in HopPaths(start_id, types, max_hops) :
                 nodes[q[Len(q)][1].target].is_latest}}

\* ORDER BY hop_count: the rows in any order that does not decrease in
\* hop_count
RECURSIVE OrderedByHops(_)
OrderedByHops(S) ==
    IF S = {} THEN {<<>>}
    ELSE UNION {{<<r>> \o t : t \in OrderedByHops(S \ {r})} :
                  r \in {x \in S : \A y \in S : x.hop_count <= y.hop_count}}

\* ... ORDER BY hop_count LIMIT $limit, each record hydrated by get_memory
\* and kept when the memory is found
MultiHopResults(start_id, types, max_hops, limit) ==
    {SelectSeq(Take(o, limit), LAMBDA r : GetMemory(r.memory_id)) :
        o \in OrderedByHops(HopRows(start_id, types, max_hops))}

\* POST /graph/multi-hop with start_id: 503 without a session
MultiHop(start_id, types, max_hops, limit) ==
    /\ pc = "idle"
    /\ \E results \in IF driver
                      THEN MultiHopResults(start_id, types, max_hops, limit)
                      ELSE {<<>>} :
          rag' = [op |-> "multi_hop", types |-> types,
                  max_hops |-> max_hops, limit |-> limit,
                  results |-> results]
    /\ req' = [NoReq EXCEPT !.op = "multi_hop", !.id = start_id]
    /\ pre' = Snapshot
    /\ ret' = Respond(IF driver THEN "ok" ELSE "unavailable", 0, 0, FALSE)
    /\ pc' = "done"
    /\ UNCHANGED <<driver, settings, nodes, rels, chroma, nextMem, related,
                   versions, headOnly, users, chunker>>

\* Numbers of memory ids and of relate requests under SpecGraph.
MaxGraphMem == 3
MaxGraphRelate == 1

\* Memories are versioned and related, insights derived, the graph searched.
NextGraph ==
    \/ Versioning(MaxGraphMem, NoMetadatas)
    \/ RelatingAmong(MaxGraphMem, MaxGraphRelate)
    \/ \E threshold \in DeriveThresholds : DeriveInsights(threshold)
    \/ \E start_id \in MemIds(MaxGraphMem), types \in TypeFilters,
          max_hops \in MaxHops, limit \in HopLimits :
          MultiHop(start_id, types, max_hops, limit)

SpecGraph == Init /\ [][NextGraph]_vars

----------------------------------------------------------------------------
\* Failures of the calls a write request makes.  create_memory, update_memory
\* and delete_memory hold no try/except around get_embedding or around the
\* store calls (delete and create only close the session in `finally`), so
\* an exception ends the request where it is raised and what was written
\* before stays written.

\* What raised: the embedding step (sentence_model.encode; a failure of the
\* OpenAI call is caught inside get_embedding) or a store call.
FailureCauses == {"embed_error", "store_error"}

\* the request ends with the exception
Raise(cause) ==
    /\ ret' = Respond(cause, 0, 0, FALSE)
    /\ pc' = "done"
    /\ headOnly' = FALSE
    /\ versions' = NoVersions

\* create_memory: get_embedding or collection.add raises; nothing is written
CreateFails(content, metadata, cause) ==
    /\ pc = "idle"
    /\ cause = "embed_error" => SentenceModel
    /\ req' = [NoReq EXCEPT !.op = "create", !.content = content,
                            !.metadata = metadata]
    /\ pre' = Snapshot
    /\ Raise(cause)
    /\ UNCHANGED <<driver, settings, rag, nodes, rels, chroma, nextMem,
                   related, users, chunker>>

\* create_memory: the CREATE query raises after the vector was added
CreateGraphFails ==
    /\ pc = "create_graph"
    /\ driver
    /\ Raise("store_error")
    /\ UNCHANGED <<driver, settings, rag, nodes, rels, chroma, nextMem,
                   related, req, pre, users, chunker>>

\* update_memory: the query of _mark_as_outdated raises; nothing is written
UpdateMarkFails(id, content, metadata) ==
    /\ pc = "idle"
    /\ GetMemory(id)
    /\ ContentChanged(id, content)
    /\ req' = [NoReq EXCEPT !.op = "update", !.id = id, !.content = content,
                            !.metadata = MetaOr(metadata, nodes[id].metadata),
                            !.existing = nodes[id].version]
    /\ pre' = Snapshot
    /\ Raise("store_error")
    /\ UNCHANGED <<driver, settings, rag, nodes, rels, chroma, nextMem,
                   related, users, chunker>>

\* update_memory -> create_memory: get_embedding or collection.add raises
\* after the old version was marked outdated
UpdateCreateFails(cause) ==
    /\ pc = "upd_marked"
    /\ cause = "embed_error" => SentenceModel
    /\ Raise(cause)
    /\ UNCHANGED <<driver, settings, rag, nodes, rels, chroma, nextMem,
                   related, req, pre, users, chunker>>

\* update_memory -> create_memory: the CREATE query raises after the vector
\* of the new version was added
UpdateGraphFails ==
    /\ pc = "upd_graph"
    /\ driver
    /\ Raise("store_error")
    /\ UNCHANGED <<driver, settings, rag, nodes, rels, chroma, nextMem,
                   related, req, pre, users, chunker>>

\* update_memory: the query of create_relationship raises after the new
\* version was stored
UpdateLinkFails ==
    /\ pc = "upd_link"
    /\ driver
    /\ Raise("store_error")
    /\ UNCHANGED <<driver, settings, rag, nodes, rels, chroma, nextMem,
                   related, req, pre, users, chunker>>

\* delete_memory: the DETACH DELETE query raises; nothing is deleted
DeleteGraphFails(id) ==
    /\ pc = "idle"
    /\ driver
    /\ req' = [NoReq EXCEPT !.op = "delete", !.id = id]
    /\ pre' = Snapshot
    /\ Raise("store_error")
    /\ UNCHANGED <<driver, settings, rag, nodes, rels, chroma, nextMem,
                   related, users, chunker>>

\* delete_memory: collection.delete raises after the node was deleted
DeleteChromaFails ==
    /\ pc = "del_chroma"
    /\ Raise("store_error")
    /\ UNCHANGED <<driver, settings, rag, nodes, rels, chroma, nextMem,
                   related, req, pre, users, chunker>>

\* The failures of the write requests on the first cap memory ids.
Failing(cap) ==
    \/ \E content \in Contents, cause \in FailureCauses :
          CreateFails(content, EmptyMeta, cause)
    \/ CreateGraphFails
    \/ \E id \in MemIds(cap), content \in UpdateContents :
          UpdateMarkFails(id, content, EmptyMeta)
    \/ \E cause \in FailureCauses : UpdateCreateFails(cause)
    \/ UpdateGraphFails
    \/ UpdateLinkFails
    \/ \E id \in MemIds(cap) : DeleteGraphFails(id)
    \/ DeleteChromaFails

\* Number of memory ids allocated under SpecFail.
MaxFailMem == 2

\* Memories are created, updated and deleted by requests that can fail.
NextFail == Versioning(MaxFailMem, NoMetadatas) \/ Failing(MaxFailMem)

\* A request that has started is served to its end: the handler is one
\* synchronous call, and nothing else runs in the process.  Clients are free
\* to send no further request.
Serving == pc # "idle" /\ NextFail

SpecFail == Init /\ [][NextFail]_vars /\ WF_vars(Serving)

----------------------------------------------------------------------------
\* Authentication (app/services/auth_service.py, app/api/auth.py)

\* What a caller sends to /auth/register and /auth/login.
Emails == {"a@example.com", "b@example.com"}
Usernames == {"ann", "bob"}
Passwords == {"p1", "p2"}

\* Number of users registered.
MaxUsers == 2

\* pwd_context.hash(password): a bcrypt hash of the password (the salt is
\* left out; the passwords sent are shorter than the 72 bytes hash_password
\* truncates to)
HashPassword(password) == [scheme |-> "bcrypt", secret |-> password]

\* the string "***" in the place of a hash
MaskedHash == [scheme |-> "none", secret |-> "***"]

\* pwd_context.verify(plain, hashed): whether the hash is one of the
\* password; for a string that is no hash of a known scheme the library
\* raises, or answers False
VerifyPassword(plain_password, hashed_password) ==
    IF hashed_password.scheme = "bcrypt"
    THEN {IF hashed_password.secret = plain_password THEN "true" ELSE "false"}
    ELSE {"raises", "false"}

\* the User object create_user builds
NewUser(email, username, password) ==
    [email |-> email, username |-> username,
     hashed_password |-> HashPassword(password), is_active |-> TRUE]

\* create_user: "Email already registered"
EmailTaken(email) == \E id \in DOMAIN users : users[id].email = email

\* create_user: self.users[user_id] = user; the object is returned
CreateUser(email, username, password) ==
    Append(users, NewUser(email, username, password))

\* register: user.hashed_password = "***" on the object create_user
\* returned, which is the object self.users holds
MaskHash(U, id) == [U EXCEPT ![id].hashed_password = MaskedHash]

\* authenticate_user: the outcomes of the search for the email and of the
\* password check: the user's id, "none" or "raises"
AuthenticateUser(email, password) ==
    IF \E id \in DOMAIN users : users[id].email = email
    THEN LET id == CHOOSE i \in DOMAIN users : users[i].email = email
         IN  {IF v = "true" THEN id ELSE IF v = "false" THEN 0 ELSE -1 :
                 v \in VerifyPassword(password, users[id].hashed_password)}
    ELSE {0}

AuthReq(op, email, username, password) ==
    [op |-> op, email |-> email, username |-> username,
     password |-> password]

\* POST /auth/register, the email is taken: 400
RegisterRefused(email, username, password) ==
    /\ pc = "idle"
    /\ EmailTaken(email)
    /\ req' = AuthReq("register", email, username, password)
    /\ ret' = Respond("invalid", 0, 0, FALSE)
    /\ pc' = "done"
    /\ UNCHANGED <<driver, settings, rag, nodes, rels, chroma, nextMem,
                   related, pre, versions, headOnly, users, chunker>>

\* POST /auth/register: the user is created and returned with the hash
\* masked
Register(email, username, password) ==
    /\ pc = "idle"
    /\ ~EmailTaken(email)
    /\ users' = MaskHash(CreateUser(email, username, password),
                         Len(users) + 1)
    /\ req' = AuthReq("register", email, username, password)
    /\ ret' = Respond("ok", Len(users) + 1, 0, FALSE)
    /\ pc' = "done"
    /\ UNCHANGED <<driver, settings, rag, nodes, rels, chroma, nextMem,
                   related, pre, versions, headOnly, chunker>>

\* POST /auth/login: 401 when authenticate_user returns None, 500 when it
\* raises, the tokens otherwise (every user is active)
Login(email, password) ==
    /\ pc = "idle"
    /\ \E user \in AuthenticateUser(email, password) :
          ret' = Respond(IF user > 0 THEN "ok"
                         ELSE IF user = 0 THEN "unauthorized" ELSE "error",
                         IF user > 0 THEN user ELSE 0, 0, FALSE)
    /\ req' = AuthReq("login", email, "", password)
    /\ pc' = "done"
    /\ UNCHANGED <<driver, settings, rag, nodes, rels, chroma, nextMem,
                   related, pre, versions, headOnly, users, chunker>>

\* Users register and log in.
NextAuth ==
    \/ \E email \in Emails, username \in Usernames, password \in Passwords :
          \/ RegisterRefused(email, username, password)
          \/ Len(users) < MaxUsers /\ Register(email, username, password)
    \/ \E email \in Emails, password \in Passwords : Login(email, password)
    \/ Return

SpecAuth == Init /\ [][NextAuth]_vars

----------------------------------------------------------------------------
\* chunk_text (app/services/pdf_service.py; the same function is in
\* app/services/document_service.py).  A text is a sequence of characters;
\* positions are Python's, counted from 0.

Chars == {"a", ".", "!", " ", "\n"}

\* Length of the texts chunked.
MaxText == 5

\* Number of chunks after which the model stops following a call.
MaxChunks == 4

Texts == UNION {[1..n -> Chars] : n \in 1..MaxText}

\* chunk_size; overlap is drawn with 0 <= overlap < chunk_size
ChunkSizes == {2, 3}

\* for punct in ['. ', '.\n', '!\n', '?\n']
Puncts == << <<".", " ">>, <<".", "\n">>, <<"!", "\n">>, <<"?", "\n">> >>

\* a slice bound as Python reads it: a negative bound counts from the end,
\* and bounds are clipped to the text
PyIndex(i, n) == IF i < 0 THEN (IF i + n < 0 THEN 0 ELSE i + n) ELSE Min(i, n)

\* text[i:j]
Slice(text, i, j) ==
    LET s == PyIndex(i, Len(text))
        e == PyIndex(j, Len(text))
    IN  IF s >= e THEN <<>> ELSE SubSeq(text, s + 1, e)

\* text.rfind(sub, i, j): the highest position in text[i:j] where sub
\* starts, -1 when there is none
RFind(text, sub, i, j) ==
    LET s == PyIndex(i, Len(text))
        e == PyIndex(j, Len(text))
        found == {k \in s..(e - Len(sub)) :
                    SubSeq(text, k + 1, k + Len(sub)) = sub}
    IN  IF found = {} THEN -1
        ELSE CHOOSE k \in found : \A m \in found : m <= k

\* str.strip()
RECURSIVE Strip(_)
Strip(s) ==
    IF s = <<>> THEN s
    ELSE IF Head(s) \in {" ", "\n"} THEN Strip(Tail(s))
    ELSE IF s[Len(s)] \in {" ", "\n"} THEN Strip(SubSeq(s, 1, Len(s) - 1))
    ELSE s

\* the loop over the sentence endings, from the k-th on: the end of the
\* chunk is pulled back behind the last occurrence of the first one found
RECURSIVE SentenceEnd(_, _, _, _)
SentenceEnd(text, start, end, k) ==
    IF k > Len(Puncts) THEN end
    ELSE IF RFind(text, Puncts[k], start, end) # -1
    THEN RFind(text, Puncts[k], start, end) + Len(Puncts[k])
    ELSE SentenceEnd(text, start, end, k + 1)

\* end of the chunk that starts at start
ChunkEnd(text, chunk_size, start) ==
    IF start + chunk_size < Len(text)
    THEN SentenceEnd(text, start, start + chunk_size, 1)
    ELSE start + chunk_size

\* chunk_text is called: a text no longer than chunk_size is returned whole,
\* a longer one enters the loop with start = 0
ChunkText(text, chunk_size, overlap) ==
    /\ chunker = NoChunker
    /\ chunker' = [pc |-> IF Len(text) <= chunk_size THEN "done" ELSE "loop",
                   text |-> text, chunk_size |-> chunk_size,
                   overlap |-> overlap, start |-> 0,
                   chunks |-> IF Len(text) <= chunk_size THEN <<text>>
                              ELSE <<>>]
    /\ UNCHANGED <<driver, settings, rag, nodes, rels, chroma, nextMem,
                   related, pc, req, ret, pre, versions, headOnly, users>>

\* one iteration of `while start < len(text)`
ChunkStep ==
    /\ chunker.pc = "loop"
    /\ Len(chunker.chunks) < MaxChunks
    /\ LET end == ChunkEnd(chunker.text, chunker.chunk_size, chunker.start)
           chunk == Strip(Slice(chunker.text, chunker.start, end))
       IN  chunker' =
              [chunker EXCEPT
                  !.chunks = IF chunk # <<>> THEN Append(@, chunk) ELSE @,
                  !.start = end - chunker.overlap,
                  !.pc = IF end - chunker.overlap >= Len(chunker.text)
                         THEN "done" ELSE "loop"]
    /\ UNCHANGED <<driver, settings, rag, nodes, rels, chroma, nextMem,
                   related, pc, req, ret, pre, versions, headOnly, users>>

\* the chunks are returned
ChunkReturn ==
    /\ chunker.pc = "done"
    /\ chunker' = NoChunker
    /\ UNCHANGED <<driver, settings, rag, nodes, rels, chroma, nextMem,
                   related, pc, req, ret, pre, versions, headOnly, users>>

\* Texts are chunked.
NextChunk ==
    \/ /\ chunker = NoChunker
       /\ \E text \in Texts, chunk_size \in ChunkSizes :
             \E overlap \in 0..(chunk_size - 1) :
                ChunkText(text, chunk_size, overlap)
    \/ ChunkStep
    \/ ChunkReturn

SpecChunk == Init /\ [][NextChunk]_vars

----------------------------------------------------------------------------
\* Version lineages

\* a and b are joined by an UPDATE relationship, in either direction
Joined(a, b) ==
    \E e \in UpdateEdges : {e[1].source, e[1].target} = {a, b}

RECURSIVE Spread(_, _)
Spread(S, n) ==
    IF n = 0 THEN S
    ELSE Spread(S \cup {b \in DOMAIN nodes : \E a \in S : Joined(a, b)}, n - 1)

\* the memories connected to m by UPDATE relationships, m included
LineageOf(m) == Spread({m}, Cardinality(DOMAIN nodes))

Heads(S) == {m \in S : nodes[m].is_latest}

AtRest == pc \in {"idle", "done"}

\* a content update has just returned its new memory
UpdateDone == pc = "done" /\ req.op = "update" /\ ret.status = "ok"

\* C1 (Invariant I1): in every reachable state, between the steps of a
\* request included, every lineage (the memories connected by UPDATE
\* relationships) has exactly one member with is_latest = true.
C1_ExactlyOneHead ==
    \A m \in DOMAIN nodes : Cardinality(Heads(LineageOf(m))) = 1

\* C2: the memory a content update returns has, in the returned object and
\* as stored, the version of the memory it supersedes plus one.
C2_VersionIncremented ==
    UpdateDone =>
        /\ ret.version = req.existing + 1
        /\ nodes[ret.id].version = req.existing + 1

C5_LineageEndsAtHead ==
    (pc = "idle" /\ driver) =>
        \A m \in DOMAIN nodes :
            /\ Lineage(m) # {}
            /\ \A l \in Lineage(m) :
                  /\ l[1] = m
                  /\ nodes[l[Len(l)]].is_latest
                  /\ Len(l) = 1 => nodes[m].is_latest

----------------------------------------------------------------------------
\* Metadata patch, delete, relationship validation

PatchDone == pc = "done" /\ req.op = "patch"

DeleteDone == pc = "done" /\ req.op = "delete"

StoresUntouched ==
    nodes = pre.nodes /\ rels = pre.rels /\ chroma = pre.chroma

\* C6: update(id, content, metadata) with content absent or equal to the
\* current content creates no memory and no relationship, leaves content,
\* version and is_latest of id as they were, and the stored metadata then
\* holds every key/value of the patch and keeps the other keys; only an update
\* whose content is present and differs creates a new version.
C6_MetadataPatch ==
    /\ PatchDone =>
          /\ DOMAIN nodes = DOMAIN pre.nodes
          /\ rels = pre.rels
          /\ chroma = pre.chroma
          /\ \A m \in DOMAIN nodes : m # req.id => nodes[m] = pre.nodes[m]
          /\ nodes[req.id].content = pre.nodes[req.id].content
          /\ nodes[req.id].version = pre.nodes[req.id].version
          /\ nodes[req.id].is_latest = pre.nodes[req.id].is_latest
          /\ \A key \in DOMAIN req.metadata :
                /\ key \in DOMAIN nodes[req.id].metadata
                /\ nodes[req.id].metadata[key] = req.metadata[key]
          /\ \A key \in (DOMAIN pre.nodes[req.id].metadata)
                            \ (DOMAIN req.metadata) :
                /\ key \in DOMAIN nodes[req.id].metadata
                /\ nodes[req.id].metadata[key] =
                      pre.nodes[req.id].metadata[key]
    /\ (pc = "done" /\ req.op = "update" /\ req.id \in DOMAIN pre.nodes) =>
          /\ req.content # NoContent
          /\ req.content # pre.nodes[req.id].content

C6_Witness ==
    /\ PatchDone
    /\ req.content \in {NoContent, pre.nodes[req.id].content}
    /\ DOMAIN req.metadata # {}
    /\ (DOMAIN pre.nodes[req.id].metadata) \ (DOMAIN req.metadata) # {}
    /\ \E key \in DOMAIN req.metadata :
          /\ key \in DOMAIN pre.nodes[req.id].metadata
          /\ pre.nodes[req.id].metadata[key] # req.metadata[key]

Incident(r, id) == r.source = id \/ r.target = id

\* C7: after delete(id) of an existing memory, get(id) finds nothing, the
\* Vector Index holds no vector for id, no relationship has id as source or
\* target, and every other memory, vector and relationship is as it was.
C7_DeleteCascades ==
    (DeleteDone /\ req.id \in DOMAIN pre.nodes) =>
        /\ ~GetMemory(req.id)
        /\ req.id \notin DOMAIN chroma
        /\ \A r \in DOMAIN rels : ~Incident(r, req.id)
        /\ DOMAIN nodes = (DOMAIN pre.nodes) \ {req.id}
        /\ \A m \in DOMAIN nodes : nodes[m] = pre.nodes[m]
        /\ DOMAIN chroma = (DOMAIN pre.chroma) \ {req.id}
        /\ \A m \in DOMAIN chroma : chroma[m] = pre.chroma[m]
        /\ \A r \in DOMAIN pre.rels :
              ~Incident(r, req.id) => CopiesIn(r, rels) = pre.rels[r]

C7_Witness ==
    /\ DeleteDone
    /\ req.id \in DOMAIN pre.nodes
    /\ \E r \in DOMAIN pre.rels : r.type = "UPDATE" /\ r.target = req.id
    /\ \E m \in DOMAIN nodes : ~nodes[m].is_latest

\* C8: delete(id) returns false and changes neither store when no memory
\* with that id exists; it returns true only when one existed.
C8_DeleteReportsMissing ==
    DeleteDone =>
        /\ req.id \notin DOMAIN pre.nodes =>
              ret.status = "false" /\ StoresUntouched
        /\ ret.status = "true" => req.id \in DOMAIN pre.nodes

\* C9 (Invariant I2): every relationship in the graph has a type in
\* {UPDATE, EXTEND, DERIVE}, and a relate request with any other type is
\* refused as invalid with the stores as they were.
C9_ClosedTypeSet ==
    /\ \A r \in DOMAIN rels : r.type \in {"UPDATE", "EXTEND", "DERIVE"}
    /\ (pc = "done" /\ req.op = "relate"
            /\ req.typ \in TypeInputs \ RelationshipType) =>
          ret.status = "invalid" /\ StoresUntouched

C9_Witness ==
    /\ pc = "done" /\ req.op = "relate" /\ req.typ = "INVALID"
    /\ \E r \in DOMAIN rels : r.type = "EXTEND"
    /\ \E r \in DOMAIN rels : r.type = "UPDATE"

\* C10 (Invariant I3): every relationship in the graph, whichever request
\* wrote it, has a confidence in [0.0, 1.0], and a request that reaches
\* create_relationship with a confidence outside that range ends in an error
\* with the stores as they were.
C10_ConfidenceInRange ==
    /\ \A r \in DOMAIN rels : r.confidence >= 0 /\ r.confidence <= 100
    /\ (pc = "done" /\ req.op \in {"relate", "link"}
            /\ (req.conf < 0 \/ req.conf > 100)) =>
          ret.status = "error" /\ StoresUntouched

C10_Witness ==
    /\ pc = "done" /\ req.op \in {"relate", "link"} /\ req.conf > 100
    /\ ret.status = "error"
    /\ \E r \in DOMAIN rels : r.type # "UPDATE"

----------------------------------------------------------------------------
\* Errors of relate and create

\* a relate or linking request whose type and confidence are valid has
\* returned
RelateDone ==
    /\ pc = "done" /\ req.op \in {"relate", "link"}
    /\ req.id # 0
    /\ ConfidenceOk(req.conf)

\* C11: a relate of valid type and confidence whose source or target memory
\* does not exist fails with NotFound, whoever calls it (the HTTP endpoint or
\* another caller of create_relationship): no Relationship is returned and no
\* relationship is persisted.
C11_RelateMissingEndpoint ==
    (RelateDone /\ ~(GetMemory(req.id) /\ GetMemory(req.target))) =>
        /\ ret.status = "not_found"
        /\ rels = pre.rels

CreateDone == pc = "done" /\ req.op = "create"

\* C12: create returns a Memory only if both the Vector Index write and the
\* Graph Store write were performed, so that the new id is in both stores;
\* with the Graph Store unavailable create does not return a Memory.
C12_CreateWritesBothStores ==
    CreateDone =>
        /\ ret.status = "ok" =>
              (ret.id \in DOMAIN chroma /\ ret.id \in DOMAIN nodes)
        /\ ~driver => ret.status # "ok"

\* no embedding backend is available
NoEmbeddingBackend ==
    ~(settings.use_openai_embeddings /\ OpenaiClient) /\ ~SentenceModel

\* C13: every vector in the Vector Index and the vector of every query run
\* is the one the embedding backend computes for the text, never a random
\* one; and without an embedding backend create, update and retrieval end in
\* an error.
C13_NoRandomVectors ==
    /\ \A m \in DOMAIN chroma : chroma[m].embedding = Embed(chroma[m].document)
    /\ (pc = "done" /\ req.op = "retrieve") =>
          rag.qvec = Embed(rag.args.query)
    /\ (pc = "done" /\ NoEmbeddingBackend
            /\ req.op \in {"create", "update", "retrieve"}) =>
          ret.status # "ok"

----------------------------------------------------------------------------
\* Retrieval Pipeline

RetrieveDone ==
    pc = "done" /\ req.op \in {"retrieve", "rag_query"} /\ rag.status = "ok"

\* the rerank stage ran to its end: rerank_results was called and returned
RerankDone == RetrieveDone /\ rag.stage

NonIncreasing(rows) ==
    \A i, j \in DOMAIN rows : i < j => rows[i].final_score >= rows[j].final_score

\* C14: retrieve returns at most limit results, in non-increasing order of
\* final_score, with and without reranking.
C14_RankedByFinalScore ==
    RetrieveDone =>
        /\ Len(rag.results) <= rag.args.limit
        /\ NonIncreasing(rag.results)

\* C15: when rerank is called with top_k smaller than the number of
\* candidates, its output holds every candidate exactly once: the top_k by
\* initial similarity, in non-increasing order of the score the stage gave
\* them, followed by the remaining candidates in their similarity order.
C15_RerankKeepsRemainder ==
    (RerankDone /\ rag.top_k < Len(rag.similar)) =>
        LET bySimilarity == SortedDesc(Indexed(rag.similar))
        IN /\ Len(rag.reranked) = Len(rag.similar)
           /\ {rag.reranked[i].idx : i \in 1..rag.top_k}
                 = {bySimilarity[i].idx : i \in 1..rag.top_k}
           /\ \A i, j \in 1..rag.top_k :
                 i < j => rag.reranked[i].score >= rag.reranked[j].score
           /\ \A i \in (rag.top_k + 1)..Len(rag.similar) :
                 rag.reranked[i].idx = bySimilarity[i].idx

\* the rerank stage was entered with no backend configured, or its backend
\* raised when it was called
RerankUnavailable ==
    /\ pc = "done" /\ req.op \in {"retrieve", "rag_query"}
    /\ rag.stage
    /\ (settings.reranker_type = "none" \/ rag.fails)

\* C16: with no reranking backend configured, or when the configured backend
\* fails on its call, the rerank stage raises no error and returns all the
\* candidates in descending similarity order, so retrieve returns a result.
C16_RerankDegrades ==
    RerankUnavailable =>
        /\ rag.status = "ok"
        /\ [i \in 1..Len(rag.reranked) |-> rag.reranked[i].idx]
              = [i \in 1..Len(rag.similar) |-> i]
        /\ \A i, j \in DOMAIN rag.similar :
              i < j => rag.similar[i].similarity >= rag.similar[j].similarity
        /\ req.op = "retrieve" => ret.status = "ok"

Between(x, a, b) == Min(a, b) <= x /\ x <= (IF a >= b THEN a ELSE b)

\* C17: for every result of retrieve, final_score is the mean of
\* similarity_score and rerank_score when the result carries a rerank_score,
\* and similarity_score when it does not; so it lies between the smaller and
\* the larger of the two scores.
C17_HybridScore ==
    RetrieveDone =>
        \A i \in DOMAIN rag.results :
            LET row == rag.results[i]
            IN IF row.rerank_score # <<>>
               THEN /\ 2 * row.final_score
                          = row.similarity_score + row.rerank_score[1]
                    /\ Between(row.final_score, row.similarity_score,
                               row.rerank_score[1])
               ELSE row.final_score = row.similarity_score

C17_Witness ==
    /\ RetrieveDone
    /\ \E i \in DOMAIN rag.results :
          /\ rag.results[i].rerank_score # <<>>
          /\ rag.results[i].rerank_score[1] # rag.results[i].similarity_score
          /\ rag.results[i].final_score # rag.results[i].rerank_score[1]

\* the results the same retrieval can give under the threshold t
ResultsUnder(t) ==
    {o.results : o \in {x \in RetrieveOutcomes(
                                 [rag.args EXCEPT !.min_similarity = t]) :
                           x.status = "ok"}}

RagQueryDone == pc = "done" /\ req.op = "rag_query"

\* C19: rag_query whose retrieval yields no result returns the fixed fallback
\* answer with no citation and does not call the generation backend, with or
\* without an API key; the backend is only ever called with a non-empty
\* context.
C19_EmptyShortCircuit ==
    RagQueryDone =>
        /\ (rag.status = "ok" /\ rag.results = <<>>) =>
              /\ ret.status = "ok"
              /\ rag.answer = "fallback"
              /\ rag.citations = <<>>
              /\ ~rag.invoked
        /\ rag.invoked => rag.context # <<>>

C19_Witness ==
    /\ RagQueryDone
    /\ ~settings.openai_api_key
    /\ DOMAIN nodes # {}
    /\ rag.status = "ok" /\ rag.results = <<>>
    /\ rag.answer = "fallback"

\* C20: the citations rag_query returns are the memories of the context
\* block, in its order: the i-th citation has the memory_id of the memory
\* printed as [i], which is the i-th retrieved memory; none is added, dropped
\* or moved.
C20_CitationsMatchContext ==
    (RagQueryDone /\ ret.status = "ok" /\ rag.answer = "generated") =>
        /\ Len(rag.citations) = Len(rag.context)
        /\ Len(rag.context) = Len(rag.results)
        /\ \A i \in DOMAIN rag.context :
              /\ rag.context[i].index = i
              /\ rag.context[i].memory = rag.results[i].id
              /\ rag.citations[i].memory_id = rag.context[i].memory

C20_Witness ==
    /\ RagQueryDone /\ ret.status = "ok" /\ rag.answer = "generated"
    /\ Len(rag.citations) >= 2
    /\ rag.citations[1].memory_id # rag.citations[2].memory_id
    /\ rag.citations[1].memory_id > rag.citations[2].memory_id

----------------------------------------------------------------------------
\* Graph analytics

DeriveDone == pc = "done" /\ req.op = "derive"

\* the relationships the request added
AddedRels == rels (-) pre.rels

\* how many relationships the request added between a and b, either way
AddedBetween(a, b) ==
    BagCardinality([e \in {x \in DOMAIN AddedRels :
                             {x.source, x.target} = {a, b}} |->
                       AddedRels[e]])

\* the cosine similarity of the vectors stored for a and b
PairSimilarity(a, b) ==
    CosineSimilarity(chroma[a].embedding, chroma[b].embedding)

\* a and b were joined by a relationship, in either direction, before
RelatedBefore(a, b) ==
    \E e \in DOMAIN pre.rels : {e.source, e.target} = {a, b}

\* the pair deriveInsights has to link
DerivePair(a, b) ==
    /\ {a, b} \subseteq DOMAIN pre.nodes
    /\ {a, b} \subseteq DOMAIN chroma
    /\ pre.nodes[a].is_latest /\ pre.nodes[b].is_latest
    /\ PairSimilarity(a, b) >= req.conf
    /\ ~RelatedBefore(a, b)

\* C21: deriveInsights(threshold) creates exactly one DERIVE relationship,
\* with the pair's cosine similarity as confidence, for each unordered pair
\* of is_latest memories at or above the threshold that no relationship
\* joined in either direction, and no relationship for any other pair.
C21_DeriveLinksSimilarPairs ==
    DeriveDone =>
        /\ pre.rels \sqsubseteq rels
        /\ \A a \in MemIds(MaxGraphMem), b \in MemIds(MaxGraphMem) :
              a < b =>
                 IF DerivePair(a, b)
                 THEN /\ AddedBetween(a, b) = 1
                      /\ \A e \in DOMAIN AddedRels :
                            {e.source, e.target} = {a, b} =>
                               /\ e.type = "DERIVE"
                               /\ e.confidence = PairSimilarity(a, b)
                 ELSE AddedBetween(a, b) = 0

MultiHopDone == pc = "done" /\ req.op = "multi_hop" /\ ret.status = "ok"

----------------------------------------------------------------------------
\* Immutability of a stored memory

\* the properties of a node, and the document of a vector entry, that are
\* written once
Written(node) ==
    <<node.content, node.created_at, node.source_type, node.source_id>>

\* one step leaves what is stored for every id that stays as it was
StoredKept ==
    /\ \A id \in (DOMAIN nodes) \cap (DOMAIN nodes') :
          Written(nodes'[id]) = Written(nodes[id])
    /\ \A id \in (DOMAIN chroma) \cap (DOMAIN chroma') :
          chroma'[id].document = chroma[id].document

\* C23: across create, update, delete and relate, the content, created_at,
\* source_type and source_id stored for an id never change between its
\* creation and its deletion; a content update only ever adds a new id.
C23_StoredMemoryImmutable ==
    /\ [][StoredKept]_vars
    /\ [](UpdateDone =>
             /\ ret.id \notin (DOMAIN pre.nodes) \cup (DOMAIN pre.chroma)
             /\ (DOMAIN pre.nodes) \subseteq DOMAIN nodes
             /\ (DOMAIN pre.chroma) \subseteq DOMAIN chroma)

\* a content update is done: the old memory still holds the old content,
\* the new id the new one
C23_Witness ==
    /\ UpdateDone
    /\ {req.id, ret.id} \subseteq DOMAIN nodes
    /\ nodes[req.id].content = pre.nodes[req.id].content
    /\ nodes[ret.id].content # nodes[req.id].content
    /\ nodes[ret.id].created_at # nodes[req.id].created_at

----------------------------------------------------------------------------
\* Repeated updates of one memory

\* the memories reachable from id along UPDATE relationships
UpdateReach(id) == {p[Len(p)][1].target : p \in UpdatePaths(id)}

----------------------------------------------------------------------------
\* Failing writes

\* the request ended with an exception
Failed == pc = "done" /\ ret.status \in FailureCauses

\* update_memory has marked the old version and has not entered
\* create_memory yet: the embedding of the new content is not computed
EmbeddingPending == pc = "upd_marked"

\* the embedding step of the create or update being served has failed
EmbeddingFailed ==
    pc = "done" /\ req.op \in {"create", "update"} /\ ret.status = "embed_error"

\* C25: within one create or update call the embedding of the new content is
\* computed before any write to the Graph Store or the Vector Index is
\* issued; if the embedding step fails, neither store was modified by the
\* call.
C25_EmbeddingBeforeWrites ==
    /\ EmbeddingPending => StoresUntouched
    /\ EmbeddingFailed => StoresUntouched

\* update(id, ...) has failed after it marked id outdated
FailedAfterMark(id) ==
    /\ Failed
    /\ req.op = "update" /\ req.id = id
    /\ id \in DOMAIN nodes
    /\ pre.nodes[id].is_latest /\ ~nodes[id].is_latest

\* the lineage of id has exactly one head (or id is gone)
HeadRestored(id) ==
    id \in DOMAIN nodes => Cardinality(Heads(LineageOf(id))) = 1

\* C26: if update(id, newContent) fails after the old memory was marked
\* outdated, the lineage of id does not stay without a head: eventually
\* exactly one member of it has is_latest = true again.
C26_HeadRestoredAfterFailure ==
    \A id \in MemIds(MaxFailMem) : FailedAfterMark(id) ~> HeadRestored(id)

\* id is in exactly one of the two stores after a create or delete failed
OrphanAfterFailure(id) ==
    /\ Failed
    /\ \/ req.op = "create" /\ req.new = id
       \/ req.op = "delete" /\ req.id = id
    /\ (id \in DOMAIN chroma) # (id \in DOMAIN nodes)

\* id is in both stores or in none
StoresAgree(id) == (id \in DOMAIN chroma) = (id \in DOMAIN nodes)

\* C27: a memory id present in exactly one of the two stores after a failed
\* or interrupted create or delete is eventually present in both stores or
\* absent from both.
C27_OrphanReconciled ==
    \A id \in MemIds(MaxFailMem) : OrphanAfterFailure(id) ~> StoresAgree(id)

----------------------------------------------------------------------------
\* UPDATE relationships written by relate

----------------------------------------------------------------------------
\* Registration and login

RegisterDone == pc = "done" /\ req.op = "register" /\ ret.status = "ok"

\* C29: after a successful register(email, username, password) through the
\* auth endpoint the password hash kept in the user store still verifies
\* that password, so a following login(email, password) authenticates the
\* user; building the response, which masks hashed_password as "***", does
\* not alter the stored user.
C29_RegisteredUserCanLogin ==
    RegisterDone =>
        /\ users[ret.id] = NewUser(req.email, req.username, req.password)
        /\ VerifyPassword(req.password, users[ret.id].hashed_password)
              = {"true"}
        /\ AuthenticateUser(req.email, req.password) = {ret.id}

----------------------------------------------------------------------------
\* Chunking

\* C30: chunk_text(text, chunk_size, overlap) terminates for every text and
\* every 0 <= overlap < chunk_size: the start position strictly increases
\* on every loop iteration, also when the end of the chunk is pulled back to
\* a sentence boundary within overlap characters of the chunk start.
C30_ChunkStartIncreases ==
    [][(chunker.pc = "loop" /\ chunker'.pc # "none") =>
          chunker'.start > chunker.start]_vars

====
